---- MODULE Spec2Model ----
(***************************************************************************)
(* Model of the ordered audio buffer of src/voice/client.py:               *)
(* OpusBufferedAudio (add_audio, the _process_buffer drain thread, the     *)
(* ffmpeg transcode process, read, cleanup).                               *)
(*                                                                         *)
(* Byte strings are kept exactly, in run-length form: a byte string is a   *)
(* sequence of runs [b |-> byte, n |-> count] with n > 0 and adjacent runs *)
(* of different bytes, so that two equal byte strings are equal values.    *)
(***************************************************************************)
EXTENDS Integers, Sequences, FiniteSets, TLC

\* ------------------------------------------------------------------ bounds
\* add_audio calls explored when the playback side is modelled (Spec)
MaxPlayPackets == 3
\* add_audio calls explored by the ingestion/drain specifications
MaxPackets == 7
\* add_audio calls explored with both the playback side and a full buffer
\* (FrameSpec)
MaxFramePackets == 7
\* time.time() when the audio source is constructed, in ms; the clock
\* advances TickStep ms at a time up to MaxTime (PaceSpec)
StartTime == 100
TickStep == 7
MaxTime == 135
\* add_audio calls explored with timestamps that differ (StampSpec)
MaxStampPackets == 8
\* deaths of the transcode process explored
MaxDeaths == 1
\* read() results kept in the playback history
MaxReads == 3
\* voice state events and connection changes explored by the session
\* specification
MaxEvents == 4
MaxFlips == 2
\* add_audio calls a source of the session receives from the callback
MaxFed == 2

\* response.audio.delta messages explored (ChatSpec)
MaxDeltas == 3

\* ------------------------------------------------- constants of __init__
frame_duration_ms == 20
sample_rate == 48000
channels == 2
bytes_per_sample == 2
buffer_duration_ms == 100

\* int(buffer_duration * 1000)
buffer_size == buffer_duration_ms
\* int(sample_rate * frame_duration * bytes_per_sample * channels)
frame_size == (sample_rate * frame_duration_ms * bytes_per_sample * channels) \div 1000
\* int(buffer_size / (frame_duration * 1000)): the deque's maxlen
max_frames == buffer_size \div frame_duration_ms

\* realtime_api_openai.py: frames per stream callback
CHUNK_SIZE == 1024

\* ------------------------------------------------------------ byte strings
RECURSIVE BLen(_)
BLen(s) == IF s = <<>> THEN 0 ELSE Head(s).n + BLen(Tail(s))

\* bytes([b]) * n
Fill(b, n) == IF n <= 0 THEN <<>> ELSE <<[b |-> b, n |-> n]>>

\* s + t
BCat(s, t) ==
    IF s = <<>> THEN t
    ELSE IF t = <<>> THEN s
    ELSE IF s[Len(s)].b = t[1].b
         THEN SubSeq(s, 1, Len(s) - 1)
              \o <<[b |-> t[1].b, n |-> s[Len(s)].n + t[1].n]>>
              \o Tail(t)
         ELSE s \o t

\* s[:k]
RECURSIVE BTake(_, _)
BTake(s, k) ==
    IF k <= 0 \/ s = <<>> THEN <<>>
    ELSE IF Head(s).n <= k
         THEN <<Head(s)>> \o BTake(Tail(s), k - Head(s).n)
         ELSE <<[b |-> Head(s).b, n |-> k]>>

\* s[k:]
RECURSIVE BDrop(_, _)
BDrop(s, k) ==
    IF k <= 0 \/ s = <<>> THEN s
    ELSE IF Head(s).n <= k
         THEN BDrop(Tail(s), k - Head(s).n)
         ELSE <<[b |-> Head(s).b, n |-> Head(s).n - k]>> \o Tail(s)

\* bytes.rjust(width, bytes([fill])): pads on the left
Rjust(s, width, fill) == BCat(Fill(fill, width - BLen(s)), s)

\* bytes.ljust(width, bytes([fill])): pads on the right, never truncates
Ljust(s, width, fill) == BCat(s, Fill(fill, width - BLen(s)))

\* b'\x00' * self.frame_size
Silence == Fill(0, frame_size)

\* the pcm_data values add_audio is called with: a whole frame and a chunk
\* that is not frame aligned
Payloads == {Fill(1, frame_size), Fill(2, frame_size \div 2)}

\* the amounts the transcode process moves from its input to its output at once
Chunks == {frame_size \div 2, frame_size}

\* ------------------------------------------------------------------- state
VARIABLES
    next_sequence,       \* self.next_sequence
    last_read_sequence,  \* self.last_read_sequence
    buffer,              \* self.buffer: deque(maxlen=max_frames) of AudioPacket
    running,             \* self.running
    lock,                \* self.lock: "free", or the thread holding it
    drain_pc,            \* position of the buffer_thread in _process_buffer
    next_packet,         \* the drain loop's local next_packet
    now,                 \* time.time(), in ms
    last_timestamp,      \* self.last_timestamp, in ms
    procs,               \* every ffmpeg process started so far, oldest first
    process,             \* self.process: index in procs of the current one
    deaths,              \* transcode processes that exited on their own
    read_pc,             \* position of the playback thread in read()
    read_proc,           \* the process whose stdout a blocked read() waits on
    read_ret,            \* how the last read() call ended
    played,              \* history: what the first MaxReads read() calls returned
    cleanup_pc,          \* position of the caller of cleanup()
    added,               \* history: the pcm_data of every add_audio call, in order
    written,             \* history: the packets written and flushed to a stage
    dropped,             \* history: sequence numbers whose write failed
    evicted,             \* history: sequence numbers the full deque discarded
    \* the VoiceRecvClient session
    connected,           \* what is_connected() returns
    sink,                \* self._sink: 0 for None, else the number of the sink
    audio_source,        \* self.audio_source: 0 for None, else its index in sources
    listening,           \* the sink registered by listen(), 0 when there is none
    playing,             \* the source play() was started with, 0 when not playing
    sources,             \* every OpusBufferedAudio constructed so far, oldest first
    members,             \* the non-bot members of self.channel
    sleeping,            \* join handlers inside `await asyncio.sleep(1)`
    connecting,          \* start_receiving calls inside wait_for_connection
    events,              \* voice state events delivered so far
    flips,               \* changes of the connection state so far
    done,                \* history: how the last start_receiving/stop_receiving ended
    callback_pc,         \* position of the receive thread in audio_callback
    callback_src,        \* the value of self.audio_source the callback has loaded
                         \* (0 also when no call is in progress)
    callback_ret,        \* history: how the last audio_callback call ended
    \* VoiceChat (realtime_api_openai.py)
    audio_buffer,        \* self.audio_buffer: the bytearray of received audio
    speaker_pc,          \* position of the audio thread in speaker_callback
    current_buffer_size, \* the local of speaker_callback
    audio_chunk,         \* the local of speaker_callback: data taken, padding added
    received,            \* history: the bytes of every audio delta, in order
    deltas,              \* history: audio deltas received so far
    spoken               \* history: the bytes taken from the buffer that
                         \* speaker_callback returned, in order

clock_vars == <<now, last_timestamp>>

source_vars == <<next_sequence, last_read_sequence, buffer, running, lock,
                 drain_pc, next_packet, clock_vars, procs, process, deaths, read_pc,
                 read_proc, read_ret, cleanup_pc, added, written, dropped,
                 evicted, played>>

callback_vars == <<callback_pc, callback_src, callback_ret>>

session_vars == <<connected, sink, audio_source, listening, playing, sources,
                  members, sleeping, connecting, events, flips, done,
                  callback_vars>>

chat_vars == <<audio_buffer, speaker_pc, current_buffer_size, audio_chunk,
               received, deltas, spoken>>

vars == <<source_vars, session_vars, chat_vars>>

\* AudioPacket(data, sequence, timestamp)
AudioPacket(data, sequence, timestamp) ==
    [data |-> data, sequence |-> sequence, timestamp |-> timestamp]

\* next_packet = None (also its value between two cycles, where the local
\* of the finished cycle is dead)
None == [data |-> <<>>, sequence |-> -2, timestamp |-> 0]

\* subprocess.Popen(['ffmpeg', ...], stdin=PIPE, stdout=PIPE, stderr=PIPE):
\* a live process with its three pipes open and nothing in them.  inq is what
\* was written to stdin and not yet transcoded, out what stands in stdout.
Popen == [alive |-> TRUE, stdin_closed |-> FALSE, stdout_closed |-> FALSE,
          inq |-> <<>>, out |-> <<>>]

\* process.terminate(); process.wait(timeout=1.0): the process is gone, and
\* with it the input it had not transcoded; what stands in stdout stays
Terminated(p) == [p EXCEPT !.alive = FALSE, !.inq = <<>>]

SeqsOf(buf) == {buf[i].sequence : i \in 1..Len(buf)}
WrittenSeqs == {written[i].sequence : i \in 1..Len(written)}

\* the state after OpusBufferedAudio.__init__: sequence tracking reset, an
\* empty deque, the first ffmpeg process started, the drain thread started
SourceInit ==
    /\ next_sequence = 0
    /\ last_read_sequence = -1
    /\ buffer = <<>>
    /\ running = TRUE
    /\ lock = "free"
    /\ drain_pc = "top"
    /\ next_packet = None
    /\ now = StartTime
    /\ last_timestamp = 0
    /\ procs = <<Popen>>
    /\ process = 1
    /\ deaths = 0
    /\ read_pc = "idle"
    /\ read_proc = 0
    /\ read_ret = [outcome |-> "none", how |-> "none", got |-> <<>>, result |-> <<>>]
    /\ cleanup_pc = "idle"
    /\ added = <<>>
    /\ written = <<>>
    /\ dropped = {}
    /\ evicted = {}
    /\ played = <<>>

\* the non-bot users that may be in the monitored channel
Users == {"u1", "u2"}

\* the state after VoiceRecvClient.__init__, with m the non-bot members
\* already in the channel: no sink, no audio source, nothing registered, the
\* voice connection not yet established
ClientInit(m) ==
    /\ connected = FALSE
    /\ sink = 0
    /\ audio_source = 0
    /\ listening = 0
    /\ playing = 0
    /\ sources = <<>>
    /\ members = m
    /\ sleeping = 0
    /\ connecting = 0
    /\ events = 0
    /\ flips = 0
    /\ done = [op |-> "none", result |-> "none", connected |-> FALSE]
    /\ callback_pc = "idle"
    /\ callback_src = 0
    /\ callback_ret = [outcome |-> "none", how |-> "none"]

\* the state after VoiceChat.__init__: an empty bytearray, no callback
\* running
ChatInit ==
    /\ audio_buffer = <<>>
    /\ speaker_pc = "idle"
    /\ current_buffer_size = 0
    /\ audio_chunk = [data |-> <<>>, padding |-> 0]
    /\ received = <<>>
    /\ deltas = 0
    /\ spoken = <<>>

\* one audio source on its own: the session around it is at rest
Init == SourceInit /\ ClientInit({}) /\ ChatInit

\* --------------------------------------------------------------- add_audio
\* a deque without maxlen
ListAppend(buf, x) == Append(buf, x)

\* a full buffer emptied to make room for the new item
FlushAppend(buf, x) == IF Len(buf) >= max_frames THEN <<x>> ELSE Append(buf, x)

\* a buffer that evicts by age: the head goes when the new item is at least
\* one frame duration younger
StaleAppend(buf, x) ==
    IF buf # <<>> /\ x.timestamp - Head(buf).timestamp >= frame_duration_ms
    THEN Append(Tail(buf), x) ELSE Append(buf, x)

\* deque.appendleft: the new item goes to the head, a full deque discards
\* its rightmost item
AppendLeft(buf, x) ==
    IF Len(buf) >= max_frames THEN <<x>> \o SubSeq(buf, 1, Len(buf) - 1)
    ELSE <<x>> \o buf

\* a full buffer that refuses the new item
DropNewest(buf, x) == IF Len(buf) >= max_frames THEN buf ELSE Append(buf, x)

\* deque.append on a deque with maxlen: a full deque discards its leftmost item
DequeAppend(buf, x) ==
    IF Len(buf) >= max_frames THEN Append(Tail(buf), x) ELSE Append(buf, x)

\* the sequence number a full deque discards on append, as a set
Discarded(buf) == IF Len(buf) >= max_frames THEN {Head(buf).sequence} ELSE {}

\* the counter left where it was
SameSequence(n) == n

\* self.next_sequence += 1
NextSequence(n) == n + 1

\* add_audio(pcm_data), all of it under self.lock
add_audio(pcm_data) ==
    /\ lock = "free"
    /\ buffer' = DequeAppend(buffer, AudioPacket(pcm_data, next_sequence, now))
    /\ next_sequence' = NextSequence(next_sequence)
    /\ added' = Append(added, pcm_data)
    /\ evicted' = evicted \cup Discarded(buffer)
    /\ UNCHANGED <<last_read_sequence, running, lock, drain_pc, next_packet,
                   procs, process, deaths, read_pc, read_proc, read_ret,
                   cleanup_pc, written, dropped, played, clock_vars,
                   session_vars, chat_vars>>

\* the network-receive thread calls add_audio with some payload
AddAudio(limit) ==
    /\ next_sequence < limit
    /\ \E pcm_data \in Payloads : add_audio(pcm_data)

\* --------------------------------------------------------- _process_buffer
\* the place of buf[j] in sorted(buf, key=sequence): the sort is stable, so
\* the packets before it are those with a lower sequence number and those
\* with the same one that stand before it
Rank(buf, j) ==
    Cardinality({k \in 1..Len(buf) :
                    \/ buf[k].sequence < buf[j].sequence
                    \/ buf[k].sequence = buf[j].sequence /\ k <= j})

\* sorted(self.buffer, key=lambda x: x.sequence)
Sorted(buf) ==
    [i \in 1..Len(buf) |-> buf[CHOOSE j \in 1..Len(buf) : Rank(buf, j) = i]]

\* the lowest of a non-empty set of indices
First(idx) == CHOOSE i \in idx : \A j \in idx : i <= j

\* the inverted test
IsNotNext(packet, last) == packet.sequence # last + 1

\* packet.sequence == self.last_read_sequence + 1
IsNext(packet, last) == packet.sequence = last + 1

\* the for loop over the sorted packets: the first one that is next in
\* sequence, or None
Scan(s, last) ==
    LET hits == {i \in 1..Len(s) : IsNext(s[i], last)}
    IN IF hits = {} THEN None ELSE s[First(hits)]

\* the removal forgotten
DequeKeep(buf, x) == buf

\* deque.remove(x): removes the first item equal to x
DequeRemove(buf, x) ==
    LET hits == {i \in 1..Len(buf) : buf[i] = x}
    IN IF hits = {} THEN buf
       ELSE SubSeq(buf, 1, First(hits) - 1) \o SubSeq(buf, First(hits) + 1, Len(buf))

\* a loop that does not look at the flag
NeverStops(flag) == TRUE

\* while self.running
KeepsRunning(flag) == flag

\* the test at the top of each cycle: another cycle, or the end of the thread
DrainLoopTest ==
    /\ drain_pc = "top"
    /\ drain_pc' = IF KeepsRunning(running) THEN "scan" ELSE "exited"
    /\ UNCHANGED <<next_sequence, last_read_sequence, buffer, running, lock,
                   next_packet, procs, process, deaths, read_pc, read_proc,
                   read_ret, cleanup_pc, added, written, dropped, evicted,
                   played, clock_vars,
                   session_vars, chat_vars>>

\* what the scan under the lock finds: nothing in an empty buffer, else the
\* first packet in sorted order that is next in sequence, or None
Found ==
    IF buffer # <<>> THEN Scan(Sorted(buffer), last_read_sequence) ELSE None

\* with self.lock: the scan of the buffer for the next packet in sequence,
\* which is removed from the buffer.  With nothing to write the lock is
\* released, time.sleep(0.001), and the next cycle starts.
DrainScan ==
    /\ drain_pc = "scan"
    /\ lock = "free"
    /\ next_packet' = Found
    /\ buffer' = IF next_packet' # None THEN DequeRemove(buffer, next_packet')
                  ELSE buffer
    /\ lock' = IF next_packet' # None THEN "drain" ELSE "free"
    /\ drain_pc' = IF next_packet' # None THEN "write" ELSE "top"
    /\ UNCHANGED <<next_sequence, last_read_sequence, running, procs, process,
                   deaths, read_pc, read_proc, read_ret, cleanup_pc, added,
                   written, dropped, evicted, played, clock_vars,
                   session_vars, chat_vars>>

\* the cursor moved past the packet written
SkipOne(last, packet) == packet.sequence + 1

\* the cursor left where it was
Stay(last, packet) == last

\* self.last_read_sequence = next_packet.sequence
Advance(last, packet) == packet.sequence

\* stdin.write(data); stdin.flush() reaches the process: it is alive and its
\* stdin was not closed
Accepts(p) == p.alive /\ ~p.stdin_closed

\* a drain loop that never sleeps
NoSleep(t, last) == 0

\* time_since_last = time.time() - self.last_timestamp; the sleep that follows
\* when it is below one frame duration, in ms
PacingSleep(t, last) ==
    IF t - last < frame_duration_ms THEN frame_duration_ms - (t - last) ELSE 0

\* the pacing sleep, then process.stdin.write and flush, still under the lock.
\* On success last_read_sequence advances, last_timestamp takes the time and
\* the cycle ends; a failed write raises into the except clause.  The
\* specifications that do not follow time take the step with timed = FALSE:
\* the clock is left where it is.
DrainWrite(timed) ==
    /\ drain_pc = "write"
    /\ now' = IF timed THEN now + PacingSleep(now, last_timestamp) ELSE now
    /\ IF Accepts(procs[process])
       THEN /\ procs' = [procs EXCEPT ![process].inq = BCat(@, next_packet.data)]
            /\ last_read_sequence' = Advance(last_read_sequence, next_packet)
            /\ written' = Append(written, [sequence |-> next_packet.sequence,
                                           data |-> next_packet.data,
                                           timestamp |-> next_packet.timestamp,
                                           process |-> process,
                                           running |-> running,
                                           time |-> now'])
            /\ last_timestamp' = now'
            /\ lock' = "free"
            /\ drain_pc' = "top"
            /\ next_packet' = None
            /\ UNCHANGED dropped
       ELSE /\ dropped' = dropped \cup {next_packet.sequence}
            /\ drain_pc' = "except"
            /\ UNCHANGED <<procs, last_read_sequence, written, lock,
                           next_packet, last_timestamp>>
    /\ UNCHANGED <<next_sequence, buffer, running, process, deaths,
                   read_pc, read_proc, read_ret, cleanup_pc, added, evicted,
                   played, session_vars, chat_vars>>

\* _start_ffmpeg: the old process is terminated and a new one takes its place
\* in self.process
StartFfmpeg(ps, cur) == Append([ps EXCEPT ![cur] = Terminated(@)], Popen)

\* how the except clause can end: the stage restarted; or an exception of
\* its own, from stderr.read() or error.decode() before _start_ffmpeg, or from
\* subprocess.Popen inside it after the old process was terminated
ExceptOutcomes == {"restarted", "stderr_failed", "popen_failed"}

\* the except clause: the error is logged, the stage's stderr is read, the
\* stage is restarted; then the lock is released and the cycle ends.  An
\* exception raised inside the clause is caught by nothing: it leaves the
\* with block (the lock is released) and the while loop, and the thread ends.
DrainExcept ==
    /\ drain_pc = "except"
    /\ \E outcome \in ExceptOutcomes :
          /\ procs' = IF outcome = "restarted" THEN StartFfmpeg(procs, process)
                      ELSE IF outcome = "popen_failed"
                      THEN [procs EXCEPT ![process] = Terminated(@)]
                      ELSE procs
          /\ process' = IF outcome = "restarted" THEN Len(procs) + 1 ELSE process
          /\ drain_pc' = IF outcome = "restarted" THEN "top" ELSE "crashed"
    /\ lock' = "free"
    /\ next_packet' = None
    /\ UNCHANGED <<next_sequence, last_read_sequence, buffer, running,
                   deaths, read_pc, read_proc, read_ret,
                   cleanup_pc, added, written, dropped, evicted, played,
                   clock_vars,
                   session_vars, chat_vars>>

Drain(timed) == DrainLoopTest \/ DrainScan \/ DrainWrite(timed) \/ DrainExcept

\* ------------------------------------------------------ the ffmpeg process
\* the current transcode process exits on its own (crash, kill)
StageDies ==
    /\ deaths < MaxDeaths
    /\ procs[process].alive
    /\ procs' = [procs EXCEPT ![process] = Terminated(@)]
    /\ deaths' = deaths + 1
    /\ UNCHANGED <<next_sequence, last_read_sequence, buffer, running, lock,
                   drain_pc, next_packet, process, read_pc, read_proc,
                   read_ret, cleanup_pc, added, written, dropped, evicted,
                   played, clock_vars,
                   session_vars, chat_vars>>

\* time passes
Tick ==
    /\ now < MaxTime
    /\ now' = now + TickStep
    /\ UNCHANGED <<next_sequence, last_read_sequence, buffer, running, lock,
                   drain_pc, next_packet, last_timestamp, procs, process,
                   deaths, read_pc, read_proc, read_ret, cleanup_pc, added,
                   written, dropped, evicted, played, session_vars, chat_vars>>

\* ffmpeg passes its input through unchanged (same format in and out), some
\* bytes at a time
StageProduce ==
    /\ procs[process].alive
    /\ procs[process].inq # <<>>
    /\ \E k \in Chunks :
          procs' = [procs EXCEPT
                      ![process].out = BCat(@, BTake(procs[process].inq, k)),
                      ![process].inq = BDrop(@, k)]
    /\ UNCHANGED <<next_sequence, last_read_sequence, buffer, running, lock,
                   drain_pc, next_packet, process, deaths, read_pc, read_proc,
                   read_ret, cleanup_pc, added, written, dropped, evicted,
                   played, clock_vars,
                   session_vars, chat_vars>>

\* -------------------------------------------------------------------- read
\* a read that returns whatever stands in the pipe
ReadReadyAny(p) == p.out # <<>> \/ ~p.alive

\* process.stdout.read(frame_size) on a buffered pipe returns once frame_size
\* bytes are there or the pipe is at end of file (the process is gone)
ReadReady(p) == BLen(p.out) >= frame_size \/ ~p.alive

\* what process.stdout.read(frame_size) then returns: frame_size bytes, or
\* at end of file whatever is left (b'' when nothing is)
ReadData(p) == BTake(p.out, frame_size)

\* the padding forgotten
Unpadded(data) == IF data = <<>> THEN Silence ELSE data

\* the padding on the wrong side
LeftPadded(data) ==
    IF data = <<>> THEN Silence
    ELSE IF BLen(data) # frame_size THEN Rjust(data, frame_size, 0)
    ELSE data

\* the body of read() after the pipe read: silence for no data, a short
\* frame padded with zero bytes on the right, a full frame as it is
Framed(data) ==
    IF data = <<>> THEN Silence
    ELSE IF BLen(data) # frame_size THEN Ljust(data, frame_size, 0)
    ELSE data

\* read() with the error propagated
ReadRaises == [outcome |-> "raised", how |-> "error", got |-> <<>>, result |-> <<>>]

\* the except clause of read(): the error is logged and silence returned
ReadExcept == [outcome |-> "returned", how |-> "error", got |-> <<>>, result |-> Silence]

\* read() returning after the pipe read gave data
ReadReturn(data) ==
    [outcome |-> "returned", how |-> IF data = <<>> THEN "eof" ELSE "data",
     got |-> data, result |-> Framed(data)]

\* the playback history with one more result
Record(h, result) == IF Len(h) < MaxReads THEN Append(h, result) ELSE h

\* the pipe read of process i completes
ReadComplete(i) ==
    /\ read_ret' = ReadReturn(ReadData(procs[i]))
    /\ played' = Record(played, read_ret'.result)
    /\ procs' = [procs EXCEPT ![i].out = BDrop(@, frame_size)]
    /\ read_pc' = "idle"
    /\ read_proc' = 0

\* the playback thread calls read(): the read of a closed pipe raises into
\* the except clause; the read of an open one returns or blocks
ReadCall ==
    /\ read_pc = "idle"
    /\ IF procs[process].stdout_closed
       THEN /\ read_ret' = ReadExcept
            /\ played' = Record(played, read_ret'.result)
            /\ UNCHANGED <<procs, read_pc, read_proc>>
       ELSE IF ReadReady(procs[process])
       THEN ReadComplete(process)
       ELSE /\ read_pc' = "blocked"
            /\ read_proc' = process
            /\ read_ret' = [outcome |-> "none", how |-> "blocked", got |-> <<>>,
                            result |-> <<>>]
            /\ UNCHANGED <<procs, played>>
    /\ UNCHANGED <<next_sequence, last_read_sequence, buffer, running, lock,
                   drain_pc, next_packet, process, deaths, cleanup_pc, added,
                   written, dropped, evicted, clock_vars,
                   session_vars, chat_vars>>

\* a blocked read() returns: the data arrived, or the process it reads from
\* is gone and the pipe at end of file.  (A close of the pipe by cleanup waits
\* for the pending read, which ends with what the terminated process left.)
ReadWake ==
    /\ read_pc = "blocked"
    /\ ReadReady(procs[read_proc])
    /\ ReadComplete(read_proc)
    /\ UNCHANGED <<next_sequence, last_read_sequence, buffer, running, lock,
                   drain_pc, next_packet, process, deaths, cleanup_pc, added,
                   written, dropped, evicted, clock_vars,
                   session_vars, chat_vars>>

Read == ReadCall \/ ReadWake

\* ----------------------------------------------------------------- cleanup
\* cleanup(): self.running = False, then the join of the drain thread
CleanupStart ==
    /\ cleanup_pc = "idle"
    /\ running' = FALSE
    /\ cleanup_pc' = "join"
    /\ UNCHANGED <<next_sequence, last_read_sequence, buffer, lock, drain_pc,
                   next_packet, procs, process, deaths, read_pc, read_proc,
                   read_ret, added, written, dropped, evicted, played,
                   clock_vars,
                   session_vars, chat_vars>>

\* buffer_thread.join(timeout=1.0) returns, or is skipped as the thread is
\* not alive: the thread has ended, or it is inside its cycle (pacing sleep,
\* pipe write, stderr read) and the timeout expires
JoinReturns == drain_pc \in {"exited", "crashed"} \/ drain_pc \in {"write", "except"}

\* stdin.close(); stdout.close(); terminate(); wait(timeout=1.0): the pipes
\* are closed on this side; the process exits, or is still there when the
\* wait expires (which is logged)
CloseAndTerminate(p, died) ==
    [(IF died THEN Terminated(p) ELSE p)
        EXCEPT !.stdin_closed = TRUE, !.stdout_closed = TRUE]

\* cleanup() after the join: the current process is closed and terminated
CleanupClose ==
    /\ cleanup_pc = "join"
    /\ JoinReturns
    /\ \E died \in BOOLEAN :
          procs' = [procs EXCEPT ![process] = CloseAndTerminate(@, died)]
    /\ cleanup_pc' = "done"
    /\ UNCHANGED <<next_sequence, last_read_sequence, buffer, running, lock,
                   drain_pc, next_packet, process, deaths, read_pc, read_proc,
                   read_ret, added, written, dropped, evicted, played,
                   clock_vars,
                   session_vars, chat_vars>>

Cleanup == CleanupStart \/ CleanupClose

\* ------------------------------------------------------------- the session
\* VoiceRecvClient.  Its handlers are coroutines of one event loop: a handler
\* runs without interruption from one await that suspends it to the next.
\* An audio source is seen here through its resources only: the running
\* flag, the drain thread and the transcode process, and through the number
\* of add_audio calls it has taken (its next_sequence).

\* a source whose constructor forgot the drain thread
Unstarted ==
    [running |-> FALSE, thread |-> "none", process |-> "alive", reaped |-> FALSE,
     packets |-> 0]

\* OpusBufferedAudio(buffer_duration=0.1): the constructor starts the ffmpeg
\* process, sets running and starts the drain thread
OpusBufferedAudio ==
    [running |-> TRUE, thread |-> "alive", process |-> "alive", reaped |-> FALSE,
     packets |-> 0]

\* a cleanup() that does nothing
NoCleanup(src, joined, died) == src

\* audio_source.cleanup(): running is cleared, the drain thread is joined for
\* at most a second (joined tells whether it ended in time), the process is
\* closed and sent terminate(), and waited for for at most a second (died
\* tells whether it exited in time)
cleanup(src, joined, died) ==
    [src EXCEPT !.running = FALSE,
                !.thread = IF joined THEN "exited" ELSE @,
                !.process = "terminated",
                !.reaped = died]

\* a cleanup() that lets the TimeoutExpired of process.wait out
TimeoutEscapes(died) == ~died

\* whether cleanup() raises: its process teardown stands in a try whose
\* except clause logs every Exception, the expired wait included
cleanup_raises(died) == FALSE

\* is_receiving(): self._sink is not None and self.is_connected()
is_receiving == sink # 0 /\ connected

\* a wait whose result is not looked at
AssumeConnected == TRUE

\* wait_for_connection() as it returns: True once is_connected() is seen,
\* False when the timeout has passed with is_connected() still false
wait_for_connection == connected

\* a stop_receiving that does not test for a sink
NoSinkTest == TRUE

\* the test of stop_receiving made with is_receiving()
SinkAndConnected == sink # 0 /\ connected

\* `if self._sink:` in stop_receiving
HasSink == sink # 0

\* start_receiving after the wait returned True: the audio source and the
\* sink are made and the sink is registered with listen(); when listen raises
\* both are rolled back (the drain thread of the fresh source is idle and
\* ends within the join) and the exception goes up to the handler, which
\* logs it
Construct ==
    LET new == Len(sources) + 1
    IN \E listen_ok \in BOOLEAN :
          IF listen_ok
          THEN /\ sources' = Append(sources, OpusBufferedAudio)
               /\ audio_source' = new
               /\ sink' = new
               /\ listening' = new
               /\ done' = [op |-> "start", result |-> "started", connected |-> connected]
          ELSE /\ sources' = Append(sources, cleanup(OpusBufferedAudio, TRUE, TRUE))
               /\ audio_source' = 0
               /\ sink' = 0
               /\ listening' = listening
               /\ done' = [op |-> "start", result |-> "failed", connected |-> connected]

\* start_receiving after the wait returned False: the error is logged and
\* the call returns
GiveUp ==
    /\ done' = [op |-> "start", result |-> "timeout", connected |-> connected]
    /\ UNCHANGED <<sink, audio_source, listening, sources>>

\* start_receiving() from its call to its first suspension or its end: with
\* a sink it does nothing; without one it waits for the connection, which
\* returns at once when is_connected() already holds
start_receiving ==
    IF sink # 0
    THEN /\ done' = [op |-> "start", result |-> "noop", connected |-> connected]
         /\ UNCHANGED <<sink, audio_source, listening, sources, connecting>>
    ELSE IF connected
    THEN Construct /\ UNCHANGED connecting
    ELSE /\ connecting' = connecting + 1
         /\ UNCHANGED <<sink, audio_source, listening, sources, done>>

\* stop_receiving(): with a sink, stop_listening(), stop() when playing,
\* cleanup() of the audio source, then both fields cleared; it has no await
stop_receiving ==
    IF HasSink
    THEN /\ listening' = 0
         /\ playing' = 0
         /\ \E joined, died \in BOOLEAN :
               /\ sources' = IF audio_source # 0
                             THEN [sources EXCEPT ![audio_source] =
                                                     cleanup(@, joined, died)]
                             ELSE sources
               /\ IF audio_source # 0 /\ cleanup_raises(died)
                  THEN /\ UNCHANGED <<sink, audio_source>>
                       /\ done' = [op |-> "stop", result |-> "raised",
                                   connected |-> connected]
                  ELSE /\ sink' = 0
                       /\ audio_source' = 0
                       /\ done' = [op |-> "stop", result |-> "released",
                                   connected |-> connected]
    ELSE /\ done' = [op |-> "stop", result |-> "noop", connected |-> connected]
         /\ UNCHANGED <<listening, playing, sources, sink, audio_source>>

\* on_voice_state_update with the channel's id for some user (who joined, or
\* was there and changed state): when the session is not receiving the
\* handler sleeps a second before it starts
UserJoins ==
    /\ events < MaxEvents
    /\ \E u \in Users : members' = members \cup {u}
    /\ events' = events + 1
    /\ sleeping' = IF is_receiving THEN sleeping ELSE sleeping + 1
    /\ UNCHANGED <<connected, sink, audio_source, listening, playing, sources,
                   connecting, flips, done, source_vars, chat_vars,
                   callback_vars>>

\* the sleep of a join handler is over: await self.start_receiving()
JoinWakes ==
    /\ sleeping > 0
    /\ sleeping' = sleeping - 1
    /\ start_receiving
    /\ UNCHANGED <<connected, playing, members, events, flips, source_vars, chat_vars,
                   callback_vars>>

\* a start_receiving call leaves wait_for_connection: connected, or timed out
WaitEnds ==
    /\ connecting > 0
    /\ connecting' = connecting - 1
    /\ IF wait_for_connection THEN Construct ELSE GiveUp
    /\ UNCHANGED <<connected, playing, members, sleeping, events, flips, source_vars, chat_vars,
                   callback_vars>>

\* on_voice_state_update with another channel id, or none, for some user
\* (who left, or never was there): when no non-bot member is left in the
\* channel, stop_receiving()
UserLeaves ==
    /\ events < MaxEvents
    /\ \E u \in Users : members' = members \ {u}
    /\ events' = events + 1
    /\ IF members' = {}
       THEN stop_receiving
       ELSE UNCHANGED <<listening, playing, sources, sink, audio_source, done>>
    /\ UNCHANGED <<connected, sleeping, connecting, flips, source_vars, chat_vars,
                   callback_vars>>

\* an audio_callback that lets the exception out
Uncaught == [outcome |-> "raised", how |-> "error"]

\* the except clause of audio_callback: the error is logged
Caught == [outcome |-> "returned", how |-> "error"]

\* audio_callback(user, data), called on the receive thread by the
\* registered sink: `if data.pcm and self.audio_source`; without pcm data or
\* without an audio source the call returns at once.  The receive thread is
\* not the event loop's: between any two of its steps a handler may run.
CallbackTest ==
    /\ callback_pc = "idle"
    /\ listening # 0
    /\ IF audio_source # 0 THEN sources[audio_source].packets < MaxFed ELSE TRUE
    /\ \E pcm \in BOOLEAN :
          IF pcm /\ audio_source # 0
          THEN /\ callback_pc' = "try"
               /\ UNCHANGED callback_ret
          ELSE /\ callback_ret' = [outcome |-> "returned", how |-> "skipped"]
               /\ UNCHANGED callback_pc
    /\ UNCHANGED <<connected, sink, audio_source, listening, playing, sources,
                   members, sleeping, connecting, events, flips, done,
                   callback_src, source_vars, chat_vars>>

\* the try is entered and self.audio_source is read a second time, for the
\* call of add_audio: on None (the source was cleared since the test) the
\* attribute lookup raises into the except clause
CallbackTry ==
    /\ callback_pc = "try"
    /\ IF audio_source = 0
       THEN /\ callback_pc' = "idle"
            /\ callback_ret' = Caught
            /\ UNCHANGED callback_src
       ELSE /\ callback_pc' = "add"
            /\ callback_src' = audio_source
            /\ UNCHANGED callback_ret
    /\ UNCHANGED <<connected, sink, audio_source, listening, playing, sources,
                   members, sleeping, connecting, events, flips, done,
                   source_vars, chat_vars>>

\* add_audio(data.pcm) runs on the source that was read: it takes the lock,
\* numbers the packet and appends it, whatever the running flag says
CallbackAdd ==
    /\ callback_pc = "add"
    /\ sources' = [sources EXCEPT ![callback_src].packets = @ + 1]
    /\ callback_pc' = "check"
    /\ UNCHANGED <<connected, sink, audio_source, listening, playing, members,
                   sleeping, connecting, events, flips, done, callback_src,
                   callback_ret, source_vars, chat_vars>>

\* `if not self.is_playing()`: when something is playing the call is over;
\* else self.audio_source is read a third time, as the argument of play()
CallbackCheck ==
    /\ callback_pc = "check"
    /\ IF playing # 0
       THEN /\ callback_pc' = "idle"
            /\ callback_ret' = [outcome |-> "returned", how |-> "added"]
            /\ callback_src' = 0
       ELSE /\ callback_pc' = "play"
            /\ callback_src' = audio_source
            /\ UNCHANGED callback_ret
    /\ UNCHANGED <<connected, sink, audio_source, listening, playing, sources,
                   members, sleeping, connecting, events, flips, done,
                   source_vars, chat_vars>>

\* self.play(source, after=...): it raises on None and without a voice
\* connection, into the except clause; else the player starts on the source
CallbackPlay ==
    /\ callback_pc = "play"
    /\ callback_pc' = "idle"
    /\ callback_src' = 0
    /\ IF callback_src = 0 \/ ~connected
       THEN callback_ret' = Caught /\ UNCHANGED playing
       ELSE /\ callback_ret' = [outcome |-> "returned", how |-> "played"]
            /\ playing' = callback_src
    /\ UNCHANGED <<connected, sink, audio_source, listening, sources, members,
                   sleeping, connecting, events, flips, done, source_vars, chat_vars>>

audio_callback ==
    CallbackTest \/ CallbackTry \/ CallbackAdd \/ CallbackCheck \/ CallbackPlay

\* the transcode process of a source exits on its own
SourceStageExits ==
    /\ \E i \in 1..Len(sources) :
          /\ sources[i].process = "alive"
          /\ sources' = [sources EXCEPT ![i].process = "exited"]
    /\ UNCHANGED <<connected, sink, audio_source, listening, playing, members,
                   sleeping, connecting, events, flips, done, source_vars, chat_vars,
                   callback_vars>>

\* the drain thread of a source, still running, finds its stage gone at the
\* next write and restarts it
SourceStageRestarts ==
    /\ \E i \in 1..Len(sources) :
          /\ sources[i].process = "exited"
          /\ sources[i].running
          /\ sources[i].thread = "alive"
          /\ sources' = [sources EXCEPT ![i].process = "alive"]
    /\ UNCHANGED <<connected, sink, audio_source, listening, playing, members,
                   sleeping, connecting, events, flips, done, source_vars, chat_vars,
                   callback_vars>>

\* a drain thread that cleanup() gave up joining comes to the end of the
\* cycle it was in and leaves its loop, running being false; when the write of
\* that cycle failed on the closed pipe, its except clause has started a new
\* ffmpeg process first
AbandonedThreadEnds ==
    /\ \E i \in 1..Len(sources) :
          /\ ~sources[i].running
          /\ sources[i].thread = "alive"
          /\ \E restarted \in BOOLEAN :
                sources' = [sources EXCEPT
                              ![i].thread = "exited",
                              ![i].process = IF restarted THEN "alive" ELSE @]
    /\ UNCHANGED <<connected, sink, audio_source, listening, playing, members,
                   sleeping, connecting, events, flips, done, source_vars, chat_vars,
                   callback_vars>>

\* the voice connection is established, or drops
ConnectionChanges ==
    /\ flips < MaxFlips
    /\ connected' = ~connected
    /\ flips' = flips + 1
    /\ UNCHANGED <<sink, audio_source, listening, playing, sources, members,
                   sleeping, connecting, events, done, source_vars, chat_vars,
                   callback_vars>>

\* --------------------------------------------------------------- VoiceChat
\* realtime_api_openai.py.  receive_audio runs on a thread of its own and
\* speaker_callback on the audio library's thread; self.audio_buffer is
\* shared between them without a lock.  A step is one statement.

\* frame_count * 2, with the frames_per_buffer the stream was opened with
bytes_needed == CHUNK_SIZE * 2

\* the sizes of the audio deltas: less than one callback takes, and more
DeltaSizes == {CHUNK_SIZE, 3 * CHUNK_SIZE}

\* receive_audio, a response.audio.delta message:
\* self.audio_buffer.extend(base64.b64decode(data['delta']))
ReceiveAudio ==
    /\ deltas < MaxDeltas
    /\ \E size \in DeltaSizes :
          LET audio_content == Fill(deltas + 1, size)
          IN /\ audio_buffer' = BCat(audio_buffer, audio_content)
             /\ received' = BCat(received, audio_content)
    /\ deltas' = deltas + 1
    /\ UNCHANGED <<speaker_pc, current_buffer_size, audio_chunk, spoken,
                   source_vars, session_vars>>

\* speaker_callback is called: current_buffer_size = len(self.audio_buffer)
SpeakerMeasure ==
    /\ speaker_pc = "idle"
    /\ current_buffer_size' = BLen(audio_buffer)
    /\ speaker_pc' = "test"
    /\ UNCHANGED <<audio_buffer, audio_chunk, received, deltas, spoken,
                   source_vars, session_vars>>

\* `if current_buffer_size >= bytes_needed`: the chunk is the head of the
\* buffer; else it is all of the buffer, padded with as many zero bytes as
\* the size measured before fell short
SpeakerTake ==
    /\ speaker_pc = "test"
    /\ IF current_buffer_size >= bytes_needed
       THEN /\ audio_chunk' = [data |-> BTake(audio_buffer, bytes_needed),
                               padding |-> 0]
            /\ speaker_pc' = "cut"
       ELSE /\ audio_chunk' = [data |-> audio_buffer,
                               padding |-> bytes_needed - current_buffer_size]
            /\ speaker_pc' = "clear"
    /\ UNCHANGED <<audio_buffer, current_buffer_size, received, deltas, spoken,
                   source_vars, session_vars>>

\* self.audio_buffer = self.audio_buffer[bytes_needed:], and the return
SpeakerCut ==
    /\ speaker_pc = "cut"
    /\ audio_buffer' = BDrop(audio_buffer, bytes_needed)
    /\ spoken' = BCat(spoken, audio_chunk.data)
    /\ speaker_pc' = "idle"
    /\ UNCHANGED <<current_buffer_size, audio_chunk, received, deltas,
                   source_vars, session_vars>>

\* self.audio_buffer.clear(), and the return
SpeakerClear ==
    /\ speaker_pc = "clear"
    /\ audio_buffer' = <<>>
    /\ spoken' = BCat(spoken, audio_chunk.data)
    /\ speaker_pc' = "idle"
    /\ UNCHANGED <<current_buffer_size, audio_chunk, received, deltas,
                   source_vars, session_vars>>

speaker_callback == SpeakerMeasure \/ SpeakerTake \/ SpeakerCut \/ SpeakerClear

\* ---------------------------------------------------------- specifications
\* the whole audio source: ingestion, drain thread, transcode process,
\* playback thread, cleanup
Next ==
    \/ AddAudio(MaxPlayPackets)
    \/ Drain(FALSE)
    \/ StageDies
    \/ StageProduce
    \/ Read
    \/ Cleanup

Spec == Init /\ [][Next]_vars

\* ingestion and drain thread with more packets than the buffer holds.  The
\* playback thread only takes bytes out of the stage's stdout, which no step
\* of add_audio, _process_buffer or cleanup reads: it is left out here.
DrainNext ==
    \/ AddAudio(MaxPackets)
    \/ Drain(FALSE)
    \/ StageDies
    \/ Cleanup

DrainSpec == Init /\ [][DrainNext]_vars

\* the four operations of the audio source together, with enough add_audio
\* calls to fill the buffer behind a packet in flight; the transcode process
\* ends by cleanup only
FrameNext ==
    \/ AddAudio(MaxFramePackets)
    \/ Drain(FALSE)
    \/ StageProduce
    \/ Read
    \/ Cleanup

FrameSpec == Init /\ [][FrameNext]_vars

\* ingestion and drain thread against a clock that also advances on its own
PaceNext ==
    \/ AddAudio(MaxPlayPackets)
    \/ Drain(TRUE)
    \/ StageDies
    \/ Cleanup
    \/ Tick

PaceSpec == Init /\ [][PaceNext]_vars

\* ingestion and drain thread with enough packets to fill the buffer behind
\* two emissions, each packet stamped by a clock that the pacing sleeps advance
StampNext ==
    \/ AddAudio(MaxStampPackets)
    \/ Drain(TRUE)
    \/ StageDies

StampSpec == Init /\ [][StampNext]_vars

\* the drain thread is an operating-system thread: it keeps being scheduled
FairDrainSpec == DrainSpec /\ WF_vars(Drain(FALSE))

\* the session: voice state events, their handlers on the event loop, the
\* connection, and the threads and processes of the sources
SessionNext ==
    \/ UserJoins
    \/ JoinWakes
    \/ WaitEnds
    \/ UserLeaves
    \/ SourceStageExits
    \/ SourceStageRestarts
    \/ AbandonedThreadEnds
    \/ ConnectionChanges

SessionInit == SourceInit /\ ChatInit /\ \E m \in SUBSET Users : ClientInit(m)

SessionSpec == SessionInit /\ [][SessionNext]_vars

\* the session together with the receive thread that calls audio_callback
CallbackNext ==
    \/ SessionNext
    \/ audio_callback

CallbackSpec == SessionInit /\ [][CallbackNext]_vars

\* VoiceChat: the receiving thread and the speaker callback
ChatNext ==
    \/ ReceiveAudio
    \/ speaker_callback

ChatSpec == Init /\ [][ChatNext]_vars

TypeOK ==
    /\ next_sequence \in Nat
    /\ last_read_sequence \in -1..next_sequence
    /\ Len(buffer) <= max_frames
    /\ running \in BOOLEAN
    /\ lock \in {"free", "drain"}
    /\ now \in Nat
    /\ last_timestamp \in 0..now
    /\ drain_pc \in {"top", "scan", "write", "except", "exited", "crashed"}
    /\ process = Len(procs)
    /\ read_pc \in {"idle", "blocked"}
    /\ cleanup_pc \in {"idle", "join", "done"}

\* ------------------------------------------------------------------ claims
\* a packet is in flight: taken out of the buffer by the drain thread and not
\* yet written or given up
InFlight == IF drain_pc \in {"write", "except"} THEN {next_packet.sequence} ELSE {}

\* C1: the sequence numbers of the packets written to the transcode stage are
\* strictly increasing in the order of the writes: none is written twice and
\* none after a higher one
C1_EmissionStrictlyIncreasing ==
    \A i, j \in 1..Len(written) :
        i < j => written[i].sequence < written[j].sequence

\* several packets were written while others were arriving
C1_Witness == Len(written) >= 3 /\ Len(buffer) >= 2

\* a packet was evicted from the full buffer before it was written, higher
\* ones are buffered, and none above it was written
StuckBehind ==
    \E k \in evicted :
        /\ k \notin WrittenSeqs
        /\ \E s \in SeqsOf(buffer) : s > k
        /\ ~\E s \in WrittenSeqs : s > k

\* C2: when a packet is lost before it was emitted (evicted from the full
\* buffer) and packets with higher sequence numbers are buffered, the running
\* drain loop eventually emits a packet with a sequence number above the lost
\* one
C2_NoPermanentStall ==
    StuckBehind ~> (~running \/ drain_pc = "crashed" \/ ~StuckBehind)

\* the drain loop has nothing in flight, the buffer is not empty and the
\* packet after the cursor is not in it
Stalled ==
    /\ running
    /\ InFlight = {}
    /\ buffer # <<>>
    /\ last_read_sequence + 1 \notin SeqsOf(buffer)

MinSeq(buf) == CHOOSE m \in SeqsOf(buf) : \A s \in SeqsOf(buf) : m <= s

\* C3: when the buffer is not empty and holds no packet with sequence
\* last_read_sequence + 1, the running drain loop eventually sets its cursor
\* to one below the lowest buffered sequence number
C3_SkipAheadOnStall ==
    Stalled ~> (\/ ~running
                \/ drain_pc = "crashed"
                \/ buffer # <<>> /\ last_read_sequence = MinSeq(buffer) - 1)

\* no insertion found the buffer full and no write failed
NoLoss == evicted = {} /\ dropped = {}

\* C4: as long as no insertion finds the buffer full and no write fails, the
\* packets written are the payloads of the add_audio calls, each once and in
\* call order, and the running drain loop again and again has written all of
\* them
C4_AllWrittenInOrder ==
    /\ [](NoLoss =>
            /\ Len(written) <= Len(added)
            /\ \A i \in 1..Len(written) :
                  written[i].data = added[i] /\ written[i].sequence = i - 1)
    /\ []<>(~NoLoss \/ ~running \/ Len(written) = Len(added))

\* more payloads than the buffer holds, of both kinds, all written
C4_Witness ==
    /\ NoLoss
    /\ Len(added) > max_frames
    /\ Len(written) = Len(added)
    /\ {added[i] : i \in 1..Len(added)} = Payloads

\* the buffered packets with a higher sequence number than every packet whose
\* write failed
Behind == {j \in SeqsOf(buffer) : \A d \in dropped : d < j}

\* C5: after a write failure and the restart, the running drain loop
\* eventually writes a packet with a higher sequence number than the failed
\* one, when such packets are buffered
C5_ProgressAfterRestart ==
    (dropped # {} /\ drain_pc # "except" /\ Behind # {})
        ~> (\/ ~running
            \/ drain_pc = "crashed"
            \/ Behind = {}
            \/ \E s \in WrittenSeqs : \A d \in dropped : d < s)

\* C6: a packet whose write failed is in the buffer no more and is never
\* written to any stage; no other packet disappears with it; and the except
\* clause ends with a new live stage in place and the drain thread at the top
\* of its loop, the error not propagated (an except clause that raises an
\* exception of its own is the subject of C27)
C6_FailedWriteDropsPacket ==
    /\ [](/\ dropped \cap (SeqsOf(buffer) \cup WrittenSeqs) = {}
          /\ \A s \in 0..(next_sequence - 1) :
                s \in SeqsOf(buffer) \cup WrittenSeqs \cup InFlight
                      \cup dropped \cup evicted)
    /\ [][(drain_pc = "except" /\ drain_pc' \notin {"except", "crashed"}) =>
            /\ drain_pc' = "top"
            /\ process' = process + 1
            /\ procs'[process'] = Popen
            /\ ~procs'[process].alive
            /\ buffer' = buffer]_vars

\* a write has failed, the stage is restarted, other packets are still buffered
C6_Witness ==
    /\ dropped # {}
    /\ drain_pc = "top"
    /\ process > 1
    /\ procs[process].alive
    /\ buffer # <<>>

\* C7: a read() that returns, returns exactly frame_size = 3840 bytes
C7_ReadReturnsOneFrame ==
    /\ frame_size = 3840
    /\ read_ret.outcome = "returned" => BLen(read_ret.result) = frame_size

\* read() returned although the stage, now gone, had produced nothing
C7_Witness ==
    /\ read_ret.outcome = "returned"
    /\ read_ret.how = "eof"
    /\ BLen(read_ret.result) = 3840

\* C8: read() never waits for the stage's output
C8_ReadNeverBlocks == read_pc # "blocked"

\* the process a completing read() reads from
Reading == IF read_pc = "blocked" THEN read_proc ELSE process

\* a step in which a read() call ends
ReadEnds == read_pc' = "idle" /\ (read_pc = "blocked" \/ read_ret' # read_ret)

C10_ShortReadPaddedRight ==
    (read_ret.outcome = "returned" /\ read_ret.got # <<>>) =>
        LET n == BLen(read_ret.got)
        IN /\ BTake(read_ret.result, n) = read_ret.got
           /\ BDrop(read_ret.result, n) = Fill(0, frame_size - n)

\* read() obtained a part of a frame
C10_Witness ==
    /\ read_ret.outcome = "returned"
    /\ BLen(read_ret.got) > 0
    /\ BLen(read_ret.got) < frame_size

\* C11: in every reachable state the buffer holds at most max_frames packets
\* (buffer duration / frame duration, 5 for the default 100 ms), whatever the
\* interleaving of add_audio calls and drain cycles
C11_BufferBounded == max_frames = 5 /\ Len(buffer) <= max_frames

\* a full buffer after more calls than it holds
C11_Witness == Len(buffer) = max_frames /\ next_sequence > max_frames

\* C12: an add_audio call on a full buffer evicts exactly one packet, the one
\* with the lowest sequence number buffered, and keeps the new packet
C12_EvictsLowest ==
    [][(Len(added') = Len(added) + 1 /\ Len(buffer) = max_frames)
       => /\ Len(buffer') = max_frames
          /\ \E i \in 1..Len(buffer') :
                buffer'[i] = AudioPacket(added'[Len(added')], next_sequence, now)
          /\ SeqsOf(buffer') =
                (SeqsOf(buffer) \ {MinSeq(buffer)}) \cup {next_sequence}
          /\ evicted' = evicted \cup {MinSeq(buffer)}]_vars

\* an eviction from a buffer the drain thread had already taken packets from
C12_Witness ==
    /\ evicted # {}
    /\ 0 \in WrittenSeqs
    /\ buffer # <<>>
    /\ buffer[Len(buffer)].sequence = next_sequence - 1

\* every packet that carries a sequence number: buffered, in flight or written
Numbered ==
    {buffer[i] : i \in 1..Len(buffer)}
    \cup (IF drain_pc \in {"write", "except"} THEN {next_packet} ELSE {})
    \cup {AudioPacket(written[i].data, written[i].sequence, written[i].timestamp) :
            i \in 1..Len(written)}

\* C13: the n-th packet accepted by add_audio (n = 0, 1, 2, ...) carries
\* sequence number n: the counter starts at 0 and goes up by exactly 1 per
\* call, and no two packets share a sequence number
C13_SequenceIsCallIndex ==
    /\ [](/\ next_sequence = Len(added)
          /\ \A p \in Numbered :
                p.sequence \in 0..(Len(added) - 1) /\ p.data = added[p.sequence + 1]
          /\ \A i, j \in 1..Len(buffer) : i # j => buffer[i].sequence # buffer[j].sequence)
    /\ [][Len(added') = Len(added) + 1
          => /\ next_sequence' = next_sequence + 1
             /\ buffer'[Len(buffer')].sequence = Len(added)]_vars

\* several packets accepted, some buffered behind one in flight
C13_Witness ==
    /\ next_sequence >= 4
    /\ drain_pc = "write"
    /\ Len(buffer) >= 2
    /\ written # <<>>

\* C14: add_audio never blocks the network-receive path: while a drain cycle
\* is in its pacing sleep, writes to or flushes the stage, or restarts it, a
\* call of add_audio can still complete
C14_AddAudioNeverWaits ==
    drain_pc \in {"write", "except"} => \A pcm_data \in Payloads : ENABLED add_audio(pcm_data)

\* C15: a restart of the transcode stage loses no output: the bytes the old
\* stage had produced and read() has not consumed stand, after the restart,
\* in the stream read() reads from
C15_RestartKeepsOutput ==
    [][process' # process => procs'[process'].out = procs[process].out]_vars

\* b''.join(chunks)
RECURSIVE Join(_)
Join(chunks) == IF chunks = <<>> THEN <<>> ELSE BCat(Head(chunks), Join(Tail(chunks)))

\* the transcode stage has never failed or been shut down, and no packet was lost
PassThrough == deaths = 0 /\ process = 1 /\ cleanup_pc = "idle" /\ NoLoss

\* C16: end to end, with a pass-through stage that never fails and no buffer
\* overflow, the read() results joined are the add_audio payloads joined in
\* call order, one frame per read with no silence inserted; so after frame
\* sized payloads p0, p1, p2 the reads return p0, p1, p2 in that order
C16_ReadsReturnPayloads ==
    PassThrough =>
        /\ Join(played) = BTake(Join(added), frame_size * Len(played))
        /\ \A i \in 1..Len(played) :
              (i <= Len(added) /\ \A j \in 1..i : BLen(added[j]) = frame_size)
                 => played[i] = added[i]

\* three frame-sized payloads added and three reads returned
C16_Witness ==
    /\ PassThrough
    /\ Len(added) = 3
    /\ \A i \in 1..3 : BLen(added[i]) = frame_size /\ added[i] # Silence
    /\ Len(played) = 3

\* C17: when the voice connection has not reported connected within the
\* wait timeout, start_receiving returns having created no audio source
\* (buffer, transcode stage, drain thread) and no sink, the session is not
\* receiving, and nothing is left pending that would try again
C17_TimeoutLeavesIdle ==
    [][(connecting' < connecting /\ ~connected)
       => /\ sources' = sources
          /\ sink' = sink
          /\ audio_source' = audio_source
          /\ listening' = listening
          /\ ~(sink' # 0 /\ connected')
          /\ sleeping' = sleeping
          /\ connecting' = connecting - 1
          /\ done'.op = "start" /\ done'.result = "timeout"]_vars

\* a start that timed out with a participant in the channel
C17_Witness ==
    /\ done.op = "start"
    /\ done.result = "timeout"
    /\ members # {}
    /\ sink = 0
    /\ sources = <<>>

\* C18: an audio source (jitter buffer, transcode stage, drain loop) is
\* constructed only with the voice connection reporting connected, and when
\* start_receiving succeeds the session has a registered sink and an audio
\* source with a live transcode stage and a running drain loop
C18_ConstructedWhenConnected ==
    [][Len(sources') > Len(sources)
       => /\ connected
          /\ done'.result = "started"
                => /\ sink' # 0
                   /\ listening' = sink'
                   /\ audio_source' = Len(sources')
                   /\ sources'[audio_source'].running
                   /\ sources'[audio_source'].thread = "alive"
                   /\ sources'[audio_source'].process = "alive"]_vars

\* a second successful start, after a stop
C18_Witness ==
    /\ done.op = "start"
    /\ done.result = "started"
    /\ Len(sources) = 2
    /\ audio_source = 2
    /\ sink # 0

\* C19: once the leave of the last non-bot participant has been handled and
\* no join handler is pending any more, the session has no sink and no
\* audio source
C19_StoppedWhenChannelEmpty ==
    (events > 0 /\ members = {} /\ sleeping = 0 /\ connecting = 0)
        => sink = 0 /\ audio_source = 0

\* C20: stop_receiving on a session with a sink releases its resources
\* whatever is_connected() returns: the running flag is cleared, the
\* transcode stage terminated, the sink and the audio source cleared
C20_StopReleases ==
    [][(events' > events /\ members' = {} /\ sink # 0)
       => /\ audio_source \in 1..Len(sources)
          /\ sink' = 0
          /\ audio_source' = 0
          /\ listening' = 0
          /\ ~sources'[audio_source].running
          /\ sources'[audio_source].process = "terminated"
          /\ done' = [op |-> "stop", result |-> "released", connected |-> connected]]_vars

\* a stop that released a source with the connection down
C20_Witness ==
    /\ done = [op |-> "stop", result |-> "released", connected |-> FALSE]
    /\ sink = 0
    /\ audio_source = 0
    /\ sources # <<>>
    /\ \A i \in 1..Len(sources) : ~sources[i].running

Phase ==
    IF sink # 0 THEN "RECEIVING"
    ELSE IF connecting > 0 THEN "CONNECTING"
    ELSE "IDLE"

\* C22: the session moves only along IDLE -> CONNECTING -> RECEIVING ->
\* STOPPING -> IDLE (and CONNECTING -> IDLE on a timeout): it becomes
\* RECEIVING only out of a connection wait that succeeded, stays RECEIVING
\* with the same sink and audio source until it is stopped, and leaves
\* RECEIVING only through a stop that tears its audio source down
C22_StateMachine ==
    [][/\ (Phase # "RECEIVING" /\ Phase' = "RECEIVING")
             => connected /\ done'.op = "start" /\ done'.result = "started"
       /\ (Phase = "RECEIVING" /\ Phase' = "RECEIVING")
             => sink' = sink /\ audio_source' = audio_source
       /\ (Phase = "RECEIVING" /\ Phase' # "RECEIVING")
             => /\ done'.op = "stop" /\ done'.result = "released"
                /\ ~sources'[audio_source].running
                /\ sources'[audio_source].process = "terminated"]_vars

\* C23: audio_callback never raises to its caller: every call returns
\* normally, with or without an audio source and whatever the state of the
\* source's transcode stage
C23_CallbackNeverRaises ==
    /\ [](callback_ret.outcome # "raised")
    /\ [][(callback_ret' # callback_ret \/ (callback_pc # "idle" /\ callback_pc' = "idle"))
          => callback_ret'.outcome = "returned"]_vars

\* a call that met a failure inside its try: the source cleared under it
C23_Witness ==
    /\ callback_ret = [outcome |-> "returned", how |-> "error"]
    /\ audio_source = 0
    /\ listening = 0
    /\ \E i \in 1..Len(sources) : sources[i].process = "terminated"

\* C24: the buffer lock is held only for the scan-and-remove or the
\* insert-and-evict step: the drain thread does not hold it in its pacing
\* sleep, while it writes to or flushes the stage's input, or while it
\* restarts the stage
C24_LockOnlyForScan ==
    drain_pc \in {"write", "except"} => lock # "drain"

\* every drain thread that a cleanup() gave up joining has since ended
Settled == \A i \in 1..Len(sources) : ~sources[i].running => sources[i].thread # "alive"

\* C25: once stop_receiving has completed and no start is in progress, no
\* audio source this session ever created has a running drain thread or a
\* live transcode process (at the latest when the threads a join timed out
\* on have come to their end)
C25_AllTornDown ==
    (done.op = "stop" /\ done.result = "released" /\ sleeping = 0
        /\ connecting = 0 /\ Settled)
        => \A i \in 1..Len(sources) :
              sources[i].thread # "alive" /\ sources[i].process # "alive"

\* the writes that happened after cleanup() had cleared the running flag
LateWrites == {i \in 1..Len(written) : ~written[i].running}

\* C26: the drain loop tests the running flag at the top of each cycle: with
\* the flag cleared no new cycle starts, at most one packet (the one of the
\* cycle in progress) is still written, and the drain thread ends
C26_StopsAtTopOfCycle ==
    /\ [](Cardinality(LateWrites) <= 1)
    /\ [][~running => ~(drain_pc = "top" /\ drain_pc' = "scan")]_vars
    /\ ~running ~> drain_pc \in {"exited", "crashed"}

\* the flag was cleared during a cycle, the cycle wrote its packet, and the
\* thread left the loop at the next test with packets still buffered
C26_Witness ==
    /\ ~running
    /\ drain_pc = "exited"
    /\ Cardinality(LateWrites) = 1
    /\ buffer # <<>>

\* C27: while the running flag is set nothing ends the drain thread: after a
\* failed write, a failed read of the stage's stderr or a failed restart the
\* loop is still there for the next cycle
C27_DrainThreadSurvives == running => drain_pc \notin {"exited", "crashed"}

\* a step of add_audio
AddStep == next_sequence' # next_sequence

\* some stage's stdin received bytes; some stage's stdout lost bytes
StdinWritten ==
    \E i \in 1..Len(procs) : BLen(procs'[i].inq) > BLen(procs[i].inq)

StdoutRead ==
    \E i \in 1..Len(procs) : BLen(procs'[i].out) < BLen(procs[i].out)

\* a step of read()
ReadStep ==
    read_pc' # read_pc \/ read_ret' # read_ret \/ played' # played \/ StdoutRead

\* a step of add_audio, of the drain thread or of cleanup()
OtherStep ==
    AddStep \/ drain_pc' # drain_pc \/ cleanup_pc' # cleanup_pc

\* what every step leaves alone, whoever takes it
FrameOfPipes ==
    /\ (written' # written \/ StdinWritten) => drain_pc = "write"
    /\ StdoutRead => ~OtherStep
    /\ ReadStep => /\ buffer' = buffer
                   /\ next_sequence' = next_sequence
                   /\ last_read_sequence' = last_read_sequence
                   /\ \A i \in 1..Len(procs) : procs'[i].inq = procs[i].inq
    /\ AddStep => /\ last_read_sequence' = last_read_sequence
                  /\ procs' = procs
                  /\ process' = process

\* C28 as stated: only the drain loop writes to the stage's stdin and removes
\* packets from the buffer, only read() reads the stage's stdout; add_audio
\* leaves last_read_sequence and the stage alone and removes nothing from the
\* buffer; read() leaves buffer, next_sequence and last_read_sequence alone
C28_FrameAsStated ==
    [][/\ FrameOfPipes
       /\ SeqsOf(buffer) \ SeqsOf(buffer') # {} => drain_pc = "scan"
       /\ AddStep => SeqsOf(buffer) \subseteq SeqsOf(buffer')]_vars

\* C28: as above, but an add_audio that finds the buffer full removes the
\* packet at its head (and no other); every other removal is the drain loop's
C28_FrameWithEviction ==
    [][/\ FrameOfPipes
       /\ (SeqsOf(buffer) \ SeqsOf(buffer') # {} /\ ~AddStep) => drain_pc = "scan"
       /\ AddStep => /\ SeqsOf(buffer) \ SeqsOf(buffer') = Discarded(buffer)
                     /\ Len(buffer) < max_frames => Len(buffer') = Len(buffer) + 1]_vars

\* add_audio has evicted from the full buffer, the drain loop has removed and
\* written, and read() has returned a frame of what was written
C28_Witness ==
    /\ evicted # {}
    /\ written # <<>>
    /\ read_ret.outcome = "returned"
    /\ read_ret.how = "data"

\* C29: between two consecutive successful writes to the transcode stage at
\* least one frame duration (20 ms) passes, however close together the
\* packets were ingested
C29_EmissionPaced ==
    /\ frame_duration_ms = 20
    /\ \A i \in 1..(Len(written) - 1) :
          written[i + 1].time - written[i].time >= frame_duration_ms

\* two packets ingested at the same instant, written one frame duration
\* apart: the drain loop slept the whole of it
C29_Witness ==
    /\ Len(written) >= 2
    /\ written[1].timestamp = written[2].timestamp
    /\ written[2].time = written[1].time + frame_duration_ms

\* a packet, and a buffer, with the ingestion timestamps blanked
ErasedPacket(p) == [p EXCEPT !.timestamp = 0]

Erased(buf) == [i \in 1..Len(buf) |-> ErasedPacket(buf[i])]

\* what the scan finds in a buffer whose timestamps are blanked
ErasedFound ==
    IF buffer # <<>> THEN Scan(Sorted(Erased(buffer)), last_read_sequence)
    ELSE None

\* C30: ordering and eviction do not look at the ingestion timestamps.  Every
\* step that decides something (the append of add_audio with its eviction,
\* the scan and removal of the drain loop, the write) decides the same on
\* the buffer with the timestamps blanked; so two runs that differ in the
\* timestamps only stay equal step by step in everything but the timestamps,
\* and emit and evict the same packets in the same order
C30_TimestampsDecideNothing ==
    [][/\ AddStep =>
            /\ Erased(buffer') =
                    DequeAppend(Erased(buffer),
                                AudioPacket(added'[Len(added')], next_sequence, 0))
            /\ evicted' = evicted \cup Discarded(Erased(buffer))
       /\ (drain_pc = "scan" /\ drain_pc' # "scan") =>
            /\ ErasedPacket(next_packet') = ErasedFound
            /\ Erased(buffer') = IF ErasedFound # None
                                  THEN DequeRemove(Erased(buffer), ErasedFound)
                                  ELSE Erased(buffer)
       /\ written' # written =>
            /\ Len(written') = Len(written) + 1
            /\ written'[Len(written')].sequence = last_read_sequence + 1
            /\ written'[Len(written')].data = next_packet.data]_vars

\* packets stamped at different times stand in the buffer, one was evicted
\* and one emitted
C30_Witness ==
    /\ evicted # {}
    /\ written # <<>>
    /\ \E i, j \in 1..Len(buffer) : buffer[i].timestamp # buffer[j].timestamp

\* the audio sources that no cleanup() has been called on: running flag set,
\* drain thread and transcode process started by the constructor
LiveSources == {i \in 1..Len(sources) : sources[i].running}

\* C31: at most one audio source is live per voice client at any time, also
\* when two join handlers are inside start_receiving together
C31_AtMostOneLive == Cardinality(LiveSources) <= 1

\* C32: once cleanup() has returned no new transcode process is started for
\* the audio source, whatever the drain thread it gave up joining does next
C32_NoProcessAfterCleanup ==
    [][cleanup_pc = "done" => Len(procs') = Len(procs)]_vars

\* C33: last_read_sequence is -1 until the first write, is always below
\* next_sequence, is the sequence number of the last packet written, and
\* moves by +1 only, in the step in which the packet with that sequence
\* number reaches the stdin of the current transcode process
C33_CursorFollowsWrites ==
    /\ [](/\ -1 <= last_read_sequence
          /\ last_read_sequence < next_sequence
          /\ written = <<>> => last_read_sequence = -1
          /\ written # <<>> => last_read_sequence = written[Len(written)].sequence)
    /\ [][last_read_sequence' # last_read_sequence =>
            /\ last_read_sequence' = last_read_sequence + 1
            /\ next_packet.sequence = last_read_sequence'
            /\ Len(written') = Len(written) + 1
            /\ Accepts(procs[process])
            /\ procs'[process].inq = BCat(procs[process].inq, next_packet.data)]_vars

\* two packets were written, the write of the third failed: the cursor
\* stands at the second
C33_Witness ==
    /\ last_read_sequence = 1
    /\ dropped = {2}
    /\ next_sequence >= 3

\* C34: when listen() fails in start_receiving the start is rolled back: the
\* audio source just constructed is cleaned up (running cleared, transcode
\* process terminated), _sink and audio_source are None again, and the
\* exception goes up to the caller
C34_ListenFailureRollsBack ==
    [][(Len(sources') = Len(sources) + 1 /\ listening' # Len(sources'))
       => /\ sink' = 0
          /\ audio_source' = 0
          /\ ~sources'[Len(sources')].running
          /\ sources'[Len(sources')].process = "terminated"
          /\ done'.op = "start"
          /\ done'.result = "failed"]_vars

\* a start failed at listen() with nothing else around: one source, torn
\* down, and the session back without sink and source
C34_Witness ==
    /\ done.op = "start"
    /\ done.result = "failed"
    /\ Len(sources) = 1
    /\ ~sources[1].running
    /\ sources[1].process = "terminated"
    /\ sink = 0
    /\ audio_source = 0
    /\ listening = 0

\* C35: a receive callback in flight when stop_receiving returned neither
\* adds a packet to the audio source that was cleaned up nor starts playback
\* of it: add_audio and play() reach running sources only
C35_NoLateCallbackEffect ==
    [][/\ \A i \in 1..Len(sources) :
             sources'[i].packets > sources[i].packets => sources[i].running
       /\ (playing' # 0 /\ playing' # playing) => sources[playing'].running]_vars

\* C36: start_receiving on a session that has a sink and stop_receiving on
\* a session that has none do nothing: sink, audio source, every source's
\* resources and packet count, the registered sink and the player stay as
\* they are, so a repeated call finds the same state and does nothing again
C36_RepeatedCallsAreNoOps ==
    [][/\ (sleeping' < sleeping /\ sink # 0) =>
            /\ UNCHANGED <<sink, audio_source, sources, listening, playing,
                           connecting>>
            /\ done'.op = "start"
            /\ done'.result = "noop"
       /\ (events' > events /\ members' = {} /\ sink = 0) =>
            /\ UNCHANGED <<sink, audio_source, sources, listening, playing>>
            /\ done'.op = "stop"
            /\ done'.result = "noop"]_vars

\* a second start_receiving found the sink of the first and a source that
\* had taken packets
C36_Witness ==
    /\ done.op = "start"
    /\ done.result = "noop"
    /\ sink # 0
    /\ audio_source # 0
    /\ sources[audio_source].packets > 0

\* C37: in VoiceChat no received byte is lost or played twice, whatever the
\* interleaving of receive_audio and speaker_callback: between two callbacks
\* the bytes returned so far (padding aside), followed by the bytes still in
\* the buffer, are the bytes received, in arrival order
C37_NothingLostOrDuplicated ==
    speaker_pc = "idle" => BCat(spoken, audio_buffer) = received

\* C38: the buffer is always in strictly increasing order of sequence number
\* from its head (oldest insertion) to its tail, and every buffered sequence
\* number is above last_read_sequence; so the packet the scan of the drain
\* loop picks is the one with the lowest sequence number buffered
C38_BufferOrdered ==
    /\ [](/\ \A i, j \in 1..Len(buffer) :
                i < j => buffer[i].sequence < buffer[j].sequence
          /\ \A i \in 1..Len(buffer) : buffer[i].sequence > last_read_sequence)
    /\ [][(drain_pc = "scan" /\ next_packet' # None)
            => /\ next_packet' = buffer[1]
               /\ next_packet'.sequence = MinSeq(buffer)]_vars

\* the scan picked a packet, not the first one emitted, out of several
C38_Witness ==
    /\ drain_pc = "write"
    /\ next_packet.sequence >= 2
    /\ Len(buffer) >= 3
====
